---------------------------- MODULE Spec2Model ----------------------------
(***************************************************************************)
(* Employee Payroll System: the record store (modules/fileHandler.js) and  *)
(* the Express route handlers of server.js that read and write it.         *)
(*                                                                         *)
(* JavaScript values are tagged records, strings are sequences of          *)
(* one-character strings, the backing file is a sequence of JSON tokens.   *)
(* Every asynchronous call (fs.readFile, the open / write / close of       *)
(* fs.writeFile) is a step of its own, so that requests interleave at the  *)
(* awaits exactly as they do on the Node.js event loop.                    *)
(***************************************************************************)
EXTENDS Integers, Sequences, FiniteSets, TLC

(***************************************************************************)
(* Bounds of the model.                                                    *)
(***************************************************************************)
NumProcs == 2       \* calls / requests of one run; they may overlap
MaxLen == 2         \* longest collection written or created
MaxClock == 4       \* last millisecond the clock reaches
ChunkTokens == 3    \* tokens that one write(fd, ...) transfers

Procs == 1..NumProcs

(***************************************************************************)
(* JavaScript values.                                                      *)
(***************************************************************************)
JStr(s) == [t |-> "string", s |-> s, n |-> 0]
JNum(n) == [t |-> "number", s |-> <<>>, n |-> n]
JUndefined == [t |-> "undefined", s |-> <<>>, n |-> 0]
JNull == [t |-> "null", s |-> <<>>, n |-> 0]
JNaN == [t |-> "NaN", s |-> <<>>, n |-> 0]
JInfinity == [t |-> "Infinity", s |-> <<>>, n |-> 0]

\* a JSON value as JSON.parse returns it: an array of objects, or something else
JArray(items) == [kind |-> "array", items |-> items]
\* an array of strings as a form field (name[]=...); s is its String()
JList(s) == [t |-> "array", s |-> s, n |-> 0]
JOther(kind) == [kind |-> kind, items |-> <<>>]

\* o.f: undefined when the object has no such property
Get(o, f) == IF f \in DOMAIN o THEN o[f] ELSE JUndefined

\* ToBoolean, as in `!name`, `gender || 'Male'`, `notes ? ... : ...`
Truthy(v) ==
    CASE v.t = "string" -> v.s # <<>>
      [] v.t = "number" -> v.n # 0
      [] v.t \in {"Infinity", "-Infinity", "array", "object"} -> TRUE
      [] OTHER -> FALSE

\* a || b
Or(a, b) == IF Truthy(a) THEN a ELSE b

(***************************************************************************)
(* Strings: String.prototype.trim, parseFloat, parseInt.  Numbers are      *)
(* integers; a fraction in a numeric string is not represented.            *)
(***************************************************************************)
WhiteSpace == {" ", "\t"}
Digits == {"0", "1", "2", "3", "4", "5", "6", "7", "8", "9"}
DigitValue(c) ==
    CASE c = "0" -> 0 [] c = "1" -> 1 [] c = "2" -> 2 [] c = "3" -> 3
      [] c = "4" -> 4 [] c = "5" -> 5 [] c = "6" -> 6 [] c = "7" -> 7
      [] c = "8" -> 8 [] c = "9" -> 9

RECURSIVE TrimStart(_)
TrimStart(s) ==
    IF s # <<>> /\ Head(s) \in WhiteSpace THEN TrimStart(Tail(s)) ELSE s

RECURSIVE TrimEnd(_)
TrimEnd(s) ==
    IF s # <<>> /\ s[Len(s)] \in WhiteSpace
    THEN TrimEnd(SubSeq(s, 1, Len(s) - 1)) ELSE s

\* (variant) trimStart: only leading white space is removed
TrimLeftOnly(s) == TrimStart(s)

Trim(s) == TrimEnd(TrimStart(s))

\* the length of the longest prefix of s made of digits
RECURSIVE DigitRun(_)
DigitRun(s) ==
    IF s # <<>> /\ Head(s) \in Digits THEN 1 + DigitRun(Tail(s)) ELSE 0

\* the value of a sequence of digits
RECURSIVE DigitsValue(_)
DigitsValue(s) ==
    IF s = <<>> THEN 0
    ELSE 10 * DigitsValue(SubSeq(s, 1, Len(s) - 1)) + DigitValue(s[Len(s)])

HasSign(s) == s # <<>> /\ Head(s) \in {"-", "+"}
Unsigned(s) == IF HasSign(s) THEN Tail(s) ELSE s
Negative(s) == s # <<>> /\ Head(s) = "-"
InfinityText == <<"I", "n", "f", "i", "n", "i", "t", "y">>
StartsWith(s, w) == Len(s) >= Len(w) /\ SubSeq(s, 1, Len(w)) = w

\* parseFloat of a string: leading white space, a sign, then Infinity or the
\* longest run of digits; NaN when there is none
ParseFloatText(s) ==
    LET t == TrimStart(s)
        u == Unsigned(t)
    IN  IF StartsWith(u, InfinityText)
        THEN (IF Negative(t) THEN [t |-> "-Infinity", s |-> <<>>, n |-> 0] ELSE JInfinity)
        ELSE IF DigitRun(u) = 0 THEN JNaN
        ELSE JNum((IF Negative(t) THEN -1 ELSE 1) * DigitsValue(SubSeq(u, 1, DigitRun(u))))

\* parseFloat(v): the argument is converted to a string first
parseFloat(v) ==
    CASE v.t = "string" -> ParseFloatText(v.s)
      [] v.t = "array" -> ParseFloatText(v.s)
      [] v.t \in {"number", "Infinity", "-Infinity"} -> v
      [] OTHER -> JNaN

\* parseInt(v) of a string: as parseFloat, but Infinity is not a number
parseInt(v) ==
    CASE v.t = "string" ->
            (IF StartsWith(Unsigned(TrimStart(v.s)), InfinityText)
             THEN JNaN ELSE ParseFloatText(v.s))
      [] v.t = "number" -> v
      [] OTHER -> JNaN

isNaN(v) == v.t = "NaN"

\* v <= 0 for a number v (false for NaN)
LeqZero(v) == (v.t = "number" /\ v.n <= 0) \/ v.t = "-Infinity"

Fields == {"id", "name", "department", "basicSalary",
           "profileImage", "gender", "startDate", "notes"}

(***************************************************************************)
(* JSON.stringify(employees, null, 2) and JSON.parse, on tokens.  The      *)
(* indentation is white space between tokens and is not represented.       *)
(***************************************************************************)
Tok(k) == [k |-> k]
ObjTok(o) == [k |-> "obj", v |-> o]

\* JSON.stringify of one property value: NaN and Infinity are written as null
StringifyValue(v) == IF v.t \in {"NaN", "Infinity", "-Infinity"} THEN JNull ELSE v

\* (variant) only the four payroll properties are written
StringifyObjectCoreOnly(o) ==
    [f \in {g \in DOMAIN o : g \in {"id", "name", "department", "basicSalary"}
                               /\ o[g].t # "undefined"} |-> StringifyValue(o[f])]

\* JSON.stringify of one object: a property whose value is undefined is left out
StringifyObject(o) ==
    [f \in {g \in DOMAIN o : o[g].t # "undefined"} |-> StringifyValue(o[f])]

RECURSIVE StringifyItems(_)
StringifyItems(items) ==
    IF Len(items) = 0 THEN <<>>
    ELSE IF Len(items) = 1 THEN <<ObjTok(StringifyObject(items[1]))>>
    ELSE <<ObjTok(StringifyObject(items[1])), Tok(",")>> \o StringifyItems(Tail(items))

Stringify(employees) ==
    <<Tok("[")>> \o StringifyItems(employees) \o <<Tok("]")>>

\* the text is "[" "]", or "[" object ("," object)* "]"
IsArrayText(data) ==
    /\ Len(data) >= 2
    /\ data[1] = Tok("[")
    /\ data[Len(data)] = Tok("]")
    /\ \/ Len(data) = 2
       \/ /\ Len(data) % 2 = 1
          /\ \A i \in 2..(Len(data) - 1) :
                IF i % 2 = 0 THEN data[i].k = "obj" ELSE data[i] = Tok(",")

\* the text is one JSON value that is not an array
IsOtherText(data) ==
    Len(data) = 1 /\ data[1].k \in {"obj", "null", "num", "str"}

\* JSON.parse throws a SyntaxError on anything else (the empty text included)
CanParse(data) == IsArrayText(data) \/ IsOtherText(data)

ParseJSON(data) ==
    IF IsArrayText(data)
    THEN JArray([i \in 1..((Len(data) - 1) \div 2) |-> data[2 * i].v])
    ELSE JOther(IF data[1].k = "obj" THEN "object" ELSE data[1].k)


(***************************************************************************)
(* State.                                                                  *)
(***************************************************************************)
VARIABLES
    file,       \* employees.json: [exists, data], data the tokens of its text
    pc,         \* per call: idle, reading, opening, writing, done
    req,        \* per call: what was called (route and parameters)
    arg,        \* per call: the collection passed to writeEmployees
    buf,        \* per call: the text fs.writeFile is writing
    off,        \* per call: the position of its file descriptor
    resp,       \* per call: the result or response, once there is one
    input,      \* what the callers of this run pass: [x, body, file]
    now,        \* the clock Date.now() reads, in milliseconds
    isAdmin,    \* req.session.isAdmin of the browser session
    \* history variables, read by the properties only
    before,     \* per call: the file when writeEmployees was called
    overlap,    \* per call: another write was in progress during this one
    saw,        \* per call: what its fs.readFile settled with, lastWrite
                \* at that moment, and whether the read was torn
    lastWrite   \* [ok, x]: ok when the last change of the file is a completed
                \* write of x that no other write overlapped

vars == <<file, pc, req, arg, buf, off, resp, input, now, isAdmin,
          before, overlap, saw, lastWrite>>

NoFile == [exists |-> FALSE, data |-> <<>>]
FileOf(data) == [exists |-> TRUE, data |-> data]
NoReq == [route |-> "none"]
NoBody == [none |-> JUndefined]
NoResp == [kind |-> "none"]
NoWrite == [ok |-> FALSE, x |-> <<>>]
NoSaw == [error |-> "unread", data |-> <<>>, last |-> NoWrite, torn |-> FALSE]

\* the calls of a run are numbered in the order they are made
Free(p) == pc[p] = "idle" /\ \A q \in Procs : q < p => pc[q] # "idle"
InWrite(p) == pc[p] \in {"opening", "writing"}

(***************************************************************************)
(* modules/fileHandler.js                                                  *)
(***************************************************************************)
Resolved(v) == [kind |-> "resolved", value |-> v]
Rejected(e) == [kind |-> "rejected", error |-> e]

\* what fs.readFile(DATA_FILE, 'utf8') can settle with: the text, ENOENT when
\* there is no file, or another error of the file system
OutcomeOf(f) ==
    IF f.exists THEN [error |-> "none", data |-> f.data]
    ELSE [error |-> "ENOENT", data |-> <<>>]

ReadFileOutcomes == {OutcomeOf(file), [error |-> "EACCES", data |-> <<>>]}

\* the error the try block of readEmployees ends with, "none" when it returns
TryError(o) ==
    IF o.error # "none" THEN o.error
    ELSE IF ~CanParse(o.data) THEN "SyntaxError"
    ELSE "none"

\* (variant) a missing file is reported to the caller
readEmployeesThrowsENOENT(o) ==
    IF TryError(o) = "none" THEN Resolved(ParseJSON(o.data))
    ELSE IF TryError(o) = "ENOENT" THEN Rejected("ENOENT")
    ELSE Resolved(JArray(<<>>))

\* (variant) only a missing file is absorbed, any other error is thrown again
readEmployeesRethrows(o) ==
    IF TryError(o) = "none" THEN Resolved(ParseJSON(o.data))
    ELSE IF TryError(o) = "ENOENT" THEN Resolved(JArray(<<>>))
    ELSE Rejected(TryError(o))

readEmployees(o) ==
    IF TryError(o) = "none" THEN Resolved(ParseJSON(o.data))
    ELSE IF TryError(o) = "ENOENT" THEN Resolved(JArray(<<>>))
    ELSE Resolved(JArray(<<>>))

\* write(fd, chunk) at position o of a file holding data: bytes from o on are
\* replaced, the file grows when the chunk passes its end, and a position
\* beyond the end leaves a hole of zero bytes
WriteAt(data, o, chunk) ==
    LET end == o + Len(chunk)
        n == IF Len(data) > end THEN Len(data) ELSE end
    IN  [i \in 1..n |-> IF i > o /\ i <= end THEN chunk[i - o]
                        ELSE IF i <= Len(data) THEN data[i]
                        ELSE Tok("nul")]

\* (variant) the file is opened without truncation (flag 'r+')
OpenKeepsContent(f) == FileOf(f.data)

\* fs.writeFile opens with flag 'w': the file is created or truncated
OpenForWrite(f) == FileOf(<<>>)

\* writeEmployees(x) is called by p: JSON.stringify runs at once, the file
\* system call is issued
CallWrite(p, x) ==
    /\ arg' = [arg EXCEPT ![p] = x]
    /\ buf' = [buf EXCEPT ![p] = Stringify(x)]
    /\ off' = [off EXCEPT ![p] = 0]
    /\ before' = [before EXCEPT ![p] = file]
    /\ overlap' = [q \in Procs |->
                    IF q = p THEN \E w \in Procs \ {p} : InWrite(w)
                    ELSE IF InWrite(q) THEN TRUE ELSE overlap[q]]


(***************************************************************************)
(* server.js: business logic                                               *)
(***************************************************************************)
ADMIN_USERNAME == <<"a", "d", "m", "i", "n">>
ADMIN_PASSWORD == <<"a", "d", "m", "i", "n">>

\* (variant) every session passes
requireAuthOpen == TRUE

requireAuth == isAdmin

\* (variant) Math.floor(Date.now() / 1000): the clock read in seconds
generateEmployeeIdSeconds(t) == JNum(t \div 1000)

\* Date.now() at a moment when the clock shows t
generateEmployeeId(t) == JNum(t)

NameRequired == "Name is required and cannot be empty"
DepartmentRequired == "Department is required and cannot be empty"
SalaryPositive == "Basic Salary must be a positive number"

\* !v || v.trim() === ''
Blank(v) == ~Truthy(v) \/ (v.t = "string" /\ Trim(v.s) = <<>>)

\* v.trim() is reached and v has no trim method: a TypeError is thrown
TrimThrows(v) == Truthy(v) /\ v.t # "string"

\* threw: the call ended with an exception instead of a result
validateEmployeeInput(name, department, basicSalary) ==
    LET salary == parseFloat(basicSalary)
        errors == (IF Blank(name) THEN <<NameRequired>> ELSE <<>>)
                  \o (IF Blank(department) THEN <<DepartmentRequired>> ELSE <<>>)
                  \o (IF isNaN(salary) \/ LeqZero(salary) THEN <<SalaryPositive>> ELSE <<>>)
    IN  [threw |-> TrimThrows(name) \/ TrimThrows(department),
         valid |-> errors = <<>>,
         errors |-> errors]

(***************************************************************************)
(* Numbers are IEEE 754 doubles.  A natural number of any size is a        *)
(* sequence of limbs, lowest first; a double is a sign, a significand of   *)
(* 53 bits and an exponent, and every operation rounds its exact result to *)
(* the nearest double, ties to even.  Subnormal numbers, overflow and the  *)
(* sign of zero are not represented.                                       *)
(***************************************************************************)
Base == 2 ^ 12

RECURSIVE Norm(_)
Norm(a) == IF a # <<>> /\ a[Len(a)] = 0 THEN Norm(SubSeq(a, 1, Len(a) - 1)) ELSE a

RECURSIVE BigOf(_)
BigOf(n) == IF n = 0 THEN <<>> ELSE <<n % Base>> \o BigOf(n \div Base)

RECURSIVE SmallOf(_)
SmallOf(a) == IF a = <<>> THEN 0 ELSE a[1] + Base * SmallOf(Tail(a))

Limb(a, i) == IF i <= Len(a) THEN a[i] ELSE 0
Zeros(n) == [i \in 1..n |-> 0]

RECURSIVE AddFrom(_, _, _, _)
AddFrom(a, b, i, carry) ==
    IF i > Len(a) /\ i > Len(b) THEN (IF carry = 0 THEN <<>> ELSE <<carry>>)
    ELSE LET sum == Limb(a, i) + Limb(b, i) + carry
         IN  <<sum % Base>> \o AddFrom(a, b, i + 1, sum \div Base)

BigAdd(a, b) == Norm(AddFrom(a, b, 1, 0))

\* a - b for a >= b
RECURSIVE SubFrom(_, _, _, _)
SubFrom(a, b, i, borrow) ==
    IF i > Len(a) THEN <<>>
    ELSE LET d == Limb(a, i) - Limb(b, i) - borrow
         IN  <<(d + Base) % Base>> \o SubFrom(a, b, i + 1, IF d < 0 THEN 1 ELSE 0)

BigSub(a, b) == Norm(SubFrom(a, b, 1, 0))

RECURSIVE CmpFrom(_, _, _)
CmpFrom(a, b, i) ==
    IF i = 0 THEN 0
    ELSE IF a[i] # b[i] THEN (IF a[i] < b[i] THEN -1 ELSE 1)
    ELSE CmpFrom(a, b, i - 1)

\* -1, 0 or 1 as a is below, equal to or above b
BigCmp(a, b) ==
    IF Len(a) # Len(b) THEN (IF Len(a) < Len(b) THEN -1 ELSE 1)
    ELSE CmpFrom(a, b, Len(a))

\* a * k for k < 2^18
RECURSIVE MulSmallFrom(_, _, _, _)
MulSmallFrom(a, k, i, carry) ==
    IF i > Len(a) THEN BigOf(carry)
    ELSE LET product == a[i] * k + carry
         IN  <<product % Base>> \o MulSmallFrom(a, k, i + 1, product \div Base)

BigMulSmall(a, k) == Norm(MulSmallFrom(a, k, 1, 0))

RECURSIVE MulFrom(_, _, _)
MulFrom(a, b, i) ==
    IF i > Len(b) THEN <<>>
    ELSE BigAdd(Zeros(i - 1) \o BigMulSmall(a, b[i]), MulFrom(a, b, i + 1))

BigMul(a, b) == Norm(MulFrom(a, b, 1))

\* the quotient and the remainder of a by d, for d < 2^18
RECURSIVE DivSmall(_, _)
DivSmall(a, d) ==
    IF a = <<>> THEN [q |-> <<>>, r |-> 0]
    ELSE LET high == DivSmall(Tail(a), d)
             cur == high.r * Base + a[1]
         IN  [q |-> <<cur \div d>> \o high.q, r |-> cur % d]

\* a * 2^s and the whole part of a / 2^s
BigShl(a, s) ==
    IF a = <<>> THEN <<>> ELSE Zeros(s \div 12) \o BigMulSmall(a, 2 ^ (s % 12))

BigShr(a, s) ==
    IF s \div 12 >= Len(a) THEN <<>>
    ELSE Norm(DivSmall(SubSeq(a, s \div 12 + 1, Len(a)), 2 ^ (s % 12)).q)

RECURSIVE BitsOf(_)
BitsOf(n) == IF n = 0 THEN 0 ELSE 1 + BitsOf(n \div 2)

BitLen(a) == IF a = <<>> THEN 0 ELSE 12 * (Len(a) - 1) + BitsOf(a[Len(a)])

IsOdd(a) == a # <<>> /\ a[1] % 2 = 1

\* the bits of the significand of a double
Precision == 53

\* the double (-1)^neg * m * 2^e, with m of exactly Precision bits, or zero
Zero == [neg |-> FALSE, m |-> <<>>, e |-> 0]

\* the double nearest to (M + f) * 2^e, where 0 <= f < 1 and f > 0 exactly
\* when sticky; ties go to the even significand
Round(neg, M, sticky, e) ==
    LET n == BitLen(M)
    IN  IF M = <<>> THEN Zero
        ELSE IF n <= Precision
        THEN [neg |-> neg, m |-> BigShl(M, Precision - n), e |-> e - (Precision - n)]
        ELSE LET d == n - Precision
                 q == BigShr(M, d)
                 c == BigCmp(BigSub(M, BigShl(q, d)), BigShl(<<1>>, d - 1))
                 up == c > 0 \/ (c = 0 /\ (sticky \/ IsOdd(q)))
                 q1 == IF up THEN BigAdd(q, <<1>>) ELSE q
             IN  IF BitLen(q1) > Precision
                 THEN [neg |-> neg, m |-> BigShr(q1, 1), e |-> e + d + 1]
                 ELSE [neg |-> neg, m |-> q1, e |-> e + d]

\* x * y
MulD(x, y) == Round(x.neg # y.neg, BigMul(x.m, y.m), FALSE, x.e + y.e)

\* x + y
AddD(x, y) ==
    IF x.m = <<>> THEN y
    ELSE IF y.m = <<>> THEN x
    ELSE LET e0 == IF x.e < y.e THEN x.e ELSE y.e
             X == BigShl(x.m, x.e - e0)
             Y == BigShl(y.m, y.e - e0)
             c == BigCmp(X, Y)
         IN  IF x.neg = y.neg THEN Round(x.neg, BigAdd(X, Y), FALSE, e0)
             ELSE IF c = 0 THEN Zero
             ELSE IF c > 0 THEN Round(x.neg, BigSub(X, Y), FALSE, e0)
             ELSE Round(y.neg, BigSub(Y, X), FALSE, e0)

\* x - y
SubD(x, y) == AddD(x, [y EXCEPT !.neg = ~y.neg])

\* the double nearest to N / D, for D < 2^18: what a decimal literal or the
\* text of a number denotes
NearestRatio(neg, N, D) ==
    LET division == DivSmall(BigShl(N, 72), D)
    IN  Round(neg, Norm(division.q), division.r # 0, 0 - 72)

FromInt(n) == Round(n < 0, BigOf(IF n < 0 THEN 0 - n ELSE n), FALSE, 0)

\* a number value as a double.  A value that is an integer below 2^30 is
\* kept as that integer n; any other has its double with it, and n is its
\* sign
ToDouble(v) ==
    IF "m" \in DOMAIN v THEN [neg |-> v.neg, m |-> v.m, e |-> v.e] ELSE FromInt(v.n)

FromDouble(d) ==
    LET whole == IF d.e >= 0 THEN <<>> ELSE BigShr(d.m, 0 - d.e)
    IN  IF d.m = <<>> THEN JNum(0)
        ELSE IF d.e < 0 /\ BitLen(whole) <= 30 /\ BigShl(whole, 0 - d.e) = d.m
        THEN JNum(IF d.neg THEN 0 - SmallOf(whole) ELSE SmallOf(whole))
        ELSE [t |-> "number", s |-> <<>>, n |-> IF d.neg THEN 0 - 1 ELSE 1,
              neg |-> d.neg, m |-> d.m, e |-> d.e]

\* the number literal c / 100, as in 5000.50
Cents(c) == FromDouble(NearestRatio(c < 0, BigOf(IF c < 0 THEN 0 - c ELSE c), 100))

(***************************************************************************)
(* server.js: payroll                                                      *)
(***************************************************************************)
\* the number an operand of * or - is converted to
ToNumber(v) ==
    CASE v.t \in {"number", "Infinity", "-Infinity"} -> v
      [] v.t = "null" -> JNum(0)
      [] v.t = "string" ->
            (LET u == Trim(v.s)
             IN  IF u = <<>> THEN JNum(0)
                 ELSE IF DigitRun(u) = Len(u) THEN JNum(DigitsValue(u))
                 ELSE JNaN)
      [] OTHER -> JNaN

\* the literal 0.12
TaxRate == NearestRatio(FALSE, BigOf(12), 100)

\* (variant) a rate of 21% in place of 12%
calculateTaxOtherRate(basicSalary) ==
    LET b == ToNumber(basicSalary)
    IN  IF b.t = "number"
        THEN FromDouble(MulD(ToDouble(b), NearestRatio(FALSE, BigOf(21), 100)))
        ELSE b

\* basicSalary * 0.12
calculateTax(basicSalary) ==
    LET b == ToNumber(basicSalary)
    IN  IF b.t = "number" THEN FromDouble(MulD(ToDouble(b), TaxRate)) ELSE b

\* basicSalary - tax
calculateNetSalary(basicSalary, tax) ==
    LET b == ToNumber(basicSalary)
        x == ToNumber(tax)
    IN  IF b.t = "number" /\ x.t = "number"
        THEN FromDouble(SubD(ToDouble(b), ToDouble(x)))
        ELSE IF b.t = "NaN" \/ x.t = "NaN" \/ b.t = x.t THEN JNaN
        ELSE IF b.t = "number" THEN (IF x.t = "Infinity"
                                     THEN [t |-> "-Infinity", s |-> <<>>, n |-> 0]
                                     ELSE JInfinity)
        ELSE b

\* (variant) { tax, netSalary } without the spread of the record
enrichWithoutSpread(employee) ==
    LET tax == calculateTax(Get(employee, "basicSalary"))
        netSalary == calculateNetSalary(Get(employee, "basicSalary"), tax)
    IN  [tax |-> tax, netSalary |-> netSalary]

\* { ...employee, tax, netSalary }
enrichEmployeeWithPayroll(employee) ==
    LET tax == calculateTax(Get(employee, "basicSalary"))
        netSalary == calculateNetSalary(Get(employee, "basicSalary"), tax)
    IN  [tax |-> tax, netSalary |-> netSalary] @@ employee

(***************************************************************************)
(* server.js: responses                                                    *)
(***************************************************************************)
\* res.redirect(to): status 302
Redirect(to) == [kind |-> "redirect", status |-> 302, target |-> to, errors |-> <<>>]

\* res.render(view, { errors, employee }): status 200
RenderForm(view, errors, employee) ==
    [kind |-> "render", status |-> 200, target |-> view, errors |-> errors,
     employee |-> employee]

\* res.render('index', { employees, error, isAdmin })
RenderIndex(employees, error, admin) ==
    [kind |-> "render", status |-> 200, target |-> "index", errors |-> <<>>,
     employees |-> employees,
     error |-> error, isAdmin |-> admin]

LoadFailed == JStr(<<"Failed to load employee data">>)

\* res.render('login', { error })
RenderLogin(error) ==
    [kind |-> "render", status |-> 200, target |-> "login", errors |-> <<>>,
     error |-> error]

InvalidLogin == JStr(<<"Invalid username or password">>)
EditLoadFailed == "/?error=Failed to load employee data"

\* multer hands its error to next(err): no error middleware is installed, so
\* the error handler of Express answers with status 500
ServerError ==
    [kind |-> "error", status |-> 500, target |-> "Only image files are allowed!",
     errors |-> <<>>]

SaveFailed == "Failed to save employee data. Please try again."
UpdateFailed == "Failed to update employee data. Please try again."
NotFound == "/?error=Employee not found"
DeleteFailed == "/?error=Failed to delete employee"

\* the submitted input a form is rendered with again
Submitted(rq) ==
    LET fields == [name |-> Get(rq.body, "name"),
                   department |-> Get(rq.body, "department"),
                   basicSalary |-> Get(rq.body, "basicSalary")]
    IN  IF rq.route = "POST /edit/:id" THEN [id |-> parseInt(rq.id)] @@ fields
        ELSE fields

\* the catch block of each handler
Caught(rq) ==
    CASE rq.route = "POST /add" -> RenderForm("add", <<SaveFailed>>, Submitted(rq))
      [] rq.route = "POST /edit/:id" -> RenderForm("edit", <<UpdateFailed>>, Submitted(rq))
      [] rq.route = "POST /delete/:id" -> Redirect(DeleteFailed)
      [] OTHER -> Rejected("error")

(***************************************************************************)
(* server.js: POST /add, up to its first await                             *)
(***************************************************************************)
MonthNames == <<"Jan", "Feb", "Mar", "Apr", "May", "Jun",
                "Jul", "Aug", "Sep", "Oct", "Nov", "Dec">>

\* `${v}` for the values a form field can have
Text(v) == IF v.t = "string" THEN v.s ELSE <<v.t>>

\* monthNames[parseInt(month) - 1], as `${...}` prints it
MonthText(month) ==
    LET m == parseInt(month)
    IN  IF m.t = "number" /\ m.n \in 1..12 THEN <<MonthNames[m.n]>>
        ELSE <<"undefined">>

\* req.file, else selectedAvatar, else a random avatar
ProfileImage(rq, random) ==
    IF rq.file = "image" THEN JStr(<<"/uploads/", "profile">>)
    ELSE IF Truthy(Get(rq.body, "selectedAvatar"))
    THEN JStr(<<"https://i.pravatar.cc/150?img=">> \o Text(Get(rq.body, "selectedAvatar")))
    ELSE JStr(<<"https://i.pravatar.cc/150?img=", random>>)

StartDate(body) ==
    IF Truthy(Get(body, "day")) /\ Truthy(Get(body, "month")) /\ Truthy(Get(body, "year"))
    THEN JStr(Text(Get(body, "day")) \o <<" ">> \o MonthText(Get(body, "month"))
              \o <<" ">> \o Text(Get(body, "year")))
    ELSE JStr(<<>>)

Male == JStr(<<"M", "a", "l", "e">>)

NewEmployee(rq, random, t) ==
    [id |-> generateEmployeeId(t),
     name |-> JStr(Trim(Get(rq.body, "name").s)),
     department |-> JStr(Trim(Get(rq.body, "department").s)),
     basicSalary |-> parseFloat(Get(rq.body, "basicSalary")),
     profileImage |-> ProfileImage(rq, random),
     gender |-> Or(Get(rq.body, "gender"), Male),
     startDate |-> StartDate(rq.body),
     notes |-> IF Truthy(Get(rq.body, "notes"))
               THEN JStr(Trim(Get(rq.body, "notes").s)) ELSE JStr(<<>>)]

Validation(body) ==
    validateEmployeeInput(Get(body, "name"), Get(body, "department"),
                          Get(body, "basicSalary"))


(***************************************************************************)
(* server.js: what each handler does once readEmployees has settled        *)
(***************************************************************************)
\* a === b
StrictEq(a, b) == a.t # "NaN" /\ a = b

\* employees.findIndex(e => e.id === employeeId), 0 for -1
FindIndex(items, employeeId) ==
    LET found == {i \in 1..Len(items) : StrictEq(Get(items[i], "id"), employeeId)}
    IN  IF found = {} THEN 0 ELSE CHOOSE i \in found : \A j \in found : i <= j

\* (variant) the id is taken from the form, which has none
UpdatedEmployeeFormId(existing, employeeId, body) ==
    [id |-> Get(body, "id"),
     name |-> JStr(Trim(Get(body, "name").s)),
     department |-> JStr(Trim(Get(body, "department").s)),
     basicSalary |-> parseFloat(Get(body, "basicSalary")),
     profileImage |-> Or(Get(existing, "profileImage"), JStr(<<>>)),
     gender |-> Or(Get(existing, "gender"), Male),
     startDate |-> Or(Get(existing, "startDate"), JStr(<<>>)),
     notes |-> Or(Get(existing, "notes"), JStr(<<>>))]

\* the object POST /edit/:id puts in place of the existing one
UpdatedEmployee(existing, employeeId, body) ==
    [id |-> employeeId,
     name |-> JStr(Trim(Get(body, "name").s)),
     department |-> JStr(Trim(Get(body, "department").s)),
     basicSalary |-> parseFloat(Get(body, "basicSalary")),
     profileImage |-> Or(Get(existing, "profileImage"), JStr(<<>>)),
     gender |-> Or(Get(existing, "gender"), Male),
     startDate |-> Or(Get(existing, "startDate"), JStr(<<>>)),
     notes |-> Or(Get(existing, "notes"), JStr(<<>>))]

\* (variant) employees.splice(i): every record from i on is removed
SpliceToEnd(items, i) == SubSeq(items, 1, i - 1)

\* employees.splice(i, 1)
Splice(items, i) == SubSeq(items, 1, i - 1) \o SubSeq(items, i + 1, Len(items))

Goes(state, x, response) == [pc |-> state, arg |-> x, resp |-> response]

\* (variant) the new record is written alone, whatever was read
AddAfterReadOnlyNew(rq, r) ==
    IF r.kind # "resolved" \/ r.value.kind # "array"
    THEN Goes("done", <<>>, Caught(rq))
    ELSE Goes("opening", <<rq.newEmployee>>, NoResp)

\* (variant) employees.unshift(newEmployee): the record is put first
AddAfterReadUnshift(rq, r) ==
    IF r.kind # "resolved" \/ r.value.kind # "array"
    THEN Goes("done", <<>>, Caught(rq))
    ELSE Goes("opening", <<rq.newEmployee>> \o r.value.items, NoResp)

\* POST /add after `await FileHandler.readEmployees()`: push, then write.
\* employees.push of a value that is not an array throws a TypeError
AddAfterRead(rq, r) ==
    IF r.kind # "resolved" \/ r.value.kind # "array"
    THEN Goes("done", <<>>, Caught(rq))
    ELSE Goes("opening", Append(r.value.items, rq.newEmployee), NoResp)

\* POST /edit/:id after the read: find, replace, write
EditAfterRead(rq, r) ==
    IF r.kind # "resolved" \/ r.value.kind # "array"
    THEN Goes("done", <<>>, Caught(rq))
    ELSE LET employees == r.value.items
             employeeId == parseInt(rq.id)
             employeeIndex == FindIndex(employees, employeeId)
         IN  IF employeeIndex = 0
             THEN Goes("done", <<>>, Redirect(NotFound))
             ELSE Goes("opening",
                       [employees EXCEPT ![employeeIndex] =
                           UpdatedEmployee(employees[employeeIndex], employeeId, rq.body)],
                       NoResp)

\* (variant) POST /delete/:id without the check of employeeIndex === -1:
\* splice(-1, 1) removes the last record
DeleteAfterReadUnchecked(rq, r) ==
    IF r.kind # "resolved" \/ r.value.kind # "array"
    THEN Goes("done", <<>>, Caught(rq))
    ELSE LET employees == r.value.items
             employeeIndex == FindIndex(employees, parseInt(rq.id))
         IN  Goes("opening",
                  Splice(employees, IF employeeIndex = 0 THEN Len(employees)
                                    ELSE employeeIndex),
                  NoResp)

\* POST /delete/:id after the read: find, splice, write
DeleteAfterRead(rq, r) ==
    IF r.kind # "resolved" \/ r.value.kind # "array"
    THEN Goes("done", <<>>, Caught(rq))
    ELSE LET employees == r.value.items
             employeeIndex == FindIndex(employees, parseInt(rq.id))
         IN  IF employeeIndex = 0
             THEN Goes("done", <<>>, Redirect(NotFound))
             ELSE Goes("opening", Splice(employees, employeeIndex), NoResp)

\* GET / after the read: map enrichEmployeeWithPayroll, render.  The map
\* of a value that is not an array throws a TypeError
IndexAfterRead(rq, r) ==
    IF r.kind # "resolved" \/ r.value.kind # "array"
    THEN Goes("done", <<>>, RenderIndex(<<>>, LoadFailed, FALSE))
    ELSE Goes("done", <<>>,
              RenderIndex([i \in 1..Len(r.value.items) |->
                              enrichEmployeeWithPayroll(r.value.items[i])],
                          JNull, rq.isAdmin))

\* (variant) GET /edit/:id without its try and catch: the rejection of the
\* async handler is handled by nobody and the request is never answered
EditFormAfterReadNoCatch(rq, r) ==
    IF r.kind # "resolved" \/ r.value.kind # "array"
    THEN Goes("unhandled", <<>>, NoResp)
    ELSE LET employees == r.value.items
             found == FindIndex(employees, parseInt(rq.id))
         IN  IF found = 0 THEN Goes("done", <<>>, Redirect(NotFound))
             ELSE Goes("done", <<>>, RenderForm("edit", <<>>, employees[found]))

\* GET /edit/:id after the read: find, then the form with the record found.
\* The find of a value that is not an array throws a TypeError
EditFormAfterRead(rq, r) ==
    IF r.kind # "resolved" \/ r.value.kind # "array"
    THEN Goes("done", <<>>, Redirect(EditLoadFailed))
    ELSE LET employees == r.value.items
             found == FindIndex(employees, parseInt(rq.id))
         IN  IF found = 0 THEN Goes("done", <<>>, Redirect(NotFound))
             ELSE Goes("done", <<>>, RenderForm("edit", <<>>, employees[found]))

AfterRead(rq, r) ==
    CASE rq.route = "POST /add" -> AddAfterRead(rq, r)
      [] rq.route = "GET /" -> IndexAfterRead(rq, r)
      [] rq.route = "GET /edit/:id" -> EditFormAfterRead(rq, r)
      [] rq.route = "POST /edit/:id" -> EditAfterRead(rq, r)
      [] rq.route = "POST /delete/:id" -> DeleteAfterRead(rq, r)
      [] OTHER -> Goes("done", <<>>, r)     \* a direct call of readEmployees

\* (variant) writeEmployees is not awaited: the handler redirects at once and
\* a rejection is not caught
AfterWriteNotAwaited(rq, w) ==
    IF rq.route = "writeEmployees" THEN w ELSE Redirect("/")

\* after `await FileHandler.writeEmployees(employees)`: res.redirect('/'),
\* or the handler's catch block when the write rejected
AfterWrite(rq, w) ==
    IF rq.route = "writeEmployees" THEN w  \* a direct call of writeEmployees
    ELSE IF w.kind = "resolved" THEN Redirect("/")
    ELSE Caught(rq)

(***************************************************************************)
(* The asynchronous file system calls.                                     *)
(***************************************************************************)
\* the read is served while one write, alone on the file, is in progress,
\* and returns neither what the file held before that write nor what the
\* write is writing
TornRead(o) ==
    /\ o.error # "EACCES"
    /\ \E w \in Procs : /\ InWrite(w)
                         /\ ~overlap[w]
                         /\ readEmployees(o) # readEmployees(OutcomeOf(before[w]))
                         /\ readEmployees(o) # readEmployees(OutcomeOf(FileOf(buf[w])))

\* fs.readFile settles and readEmployees returns to its caller, which runs
\* on to its next await or to its response
ReadFile(p) ==
    /\ pc[p] = "reading"
    /\ \E o \in ReadFileOutcomes :
          LET next == AfterRead(req[p], readEmployees(o))
          IN  /\ pc' = [pc EXCEPT ![p] = next.pc]
              /\ resp' = [resp EXCEPT ![p] = next.resp]
              /\ saw' = [saw EXCEPT ![p] = [error |-> o.error, data |-> o.data,
                                             last |-> lastWrite, torn |-> TornRead(o)]]
              /\ IF next.pc = "opening"
                 THEN CallWrite(p, next.arg)
                 ELSE UNCHANGED <<arg, buf, off, before, overlap>>
    /\ UNCHANGED <<file, req, input, now, isAdmin, lastWrite>>

\* (variant) optimistic versioning: the file is opened only while it still
\* is what the caller's snapshot was taken from
WriteOpenIfUnchanged(p) ==
    /\ pc[p] = "opening"
    /\ file = before[p]
    /\ file' = OpenForWrite(file)
    /\ pc' = [pc EXCEPT ![p] = "writing"]
    /\ lastWrite' = NoWrite
    /\ UNCHANGED <<req, arg, buf, off, resp, input, now, isAdmin, before, overlap, saw>>

\* fs.writeFile: open(DATA_FILE, 'w')
WriteOpen(p) ==
    /\ pc[p] = "opening"
    /\ file' = OpenForWrite(file)
    /\ pc' = [pc EXCEPT ![p] = "writing"]
    /\ lastWrite' = NoWrite
    /\ UNCHANGED <<req, arg, buf, off, resp, input, now, isAdmin, before, overlap, saw>>

\* the tokens the next write(fd, ...) of p transfers
ChunkLen(p) ==
    IF Len(buf[p]) - off[p] > ChunkTokens THEN ChunkTokens ELSE Len(buf[p]) - off[p]

\* fs.writeFile: one write(fd, ...) at the descriptor's position; the loop
\* goes on until the whole text is written
WriteChunk(p) ==
    /\ pc[p] = "writing"
    /\ off[p] + ChunkLen(p) < Len(buf[p])
    /\ file' = FileOf(WriteAt(file.data, off[p],
                              SubSeq(buf[p], off[p] + 1, off[p] + ChunkLen(p))))
    /\ off' = [off EXCEPT ![p] = off[p] + ChunkLen(p)]
    /\ lastWrite' = NoWrite
    /\ UNCHANGED <<pc, req, arg, buf, resp, input, now, isAdmin, before, overlap, saw>>

\* fs.writeFile: the last write(fd, ...) and close(fd), which leaves the
\* file as the write left it; writeEmployees resolves and its caller runs on
WriteClose(p) ==
    /\ pc[p] = "writing"
    /\ off[p] + ChunkLen(p) = Len(buf[p])
    /\ file' = FileOf(WriteAt(file.data, off[p],
                              SubSeq(buf[p], off[p] + 1, off[p] + ChunkLen(p))))
    /\ pc' = [pc EXCEPT ![p] = "done"]
    /\ resp' = [resp EXCEPT ![p] = AfterWrite(req[p], Resolved(JUndefined))]
    /\ lastWrite' = [ok |-> ~overlap[p], x |-> arg[p]]
    /\ buf' = [buf EXCEPT ![p] = <<>>]
    /\ off' = [off EXCEPT ![p] = 0]
    /\ UNCHANGED <<req, arg, input, now, isAdmin, before, overlap, saw>>

\* fs.writeFile: the open or a write fails (EACCES, ENOSPC, EIO);
\* writeEmployees rejects and its caller runs on
WriteFail(p) ==
    /\ InWrite(p)
    /\ pc' = [pc EXCEPT ![p] = "done"]
    /\ resp' = [resp EXCEPT ![p] = AfterWrite(req[p], Rejected("EIO"))]
    /\ buf' = [buf EXCEPT ![p] = <<>>]
    /\ off' = [off EXCEPT ![p] = 0]
    /\ UNCHANGED <<file, req, arg, input, now, isAdmin, before, overlap, saw, lastWrite>>


Reset(p) ==
    /\ arg' = [arg EXCEPT ![p] = <<>>]
    /\ buf' = [buf EXCEPT ![p] = <<>>]
    /\ off' = [off EXCEPT ![p] = 0]
    /\ before' = [before EXCEPT ![p] = NoFile]
    /\ overlap' = [overlap EXCEPT ![p] = FALSE]

\* the handler answers before any await
Answer(p, rq, response) ==
    /\ pc' = [pc EXCEPT ![p] = "done"]
    /\ req' = [req EXCEPT ![p] = rq]
    /\ resp' = [resp EXCEPT ![p] = response]
    /\ saw' = [saw EXCEPT ![p] = NoSaw]
    /\ Reset(p)

\* the handler calls readEmployees and awaits it
AwaitRead(p, rq) ==
    /\ pc' = [pc EXCEPT ![p] = "reading"]
    /\ req' = [req EXCEPT ![p] = rq]
    /\ resp' = [resp EXCEPT ![p] = NoResp]
    /\ saw' = [saw EXCEPT ![p] = NoSaw]
    /\ Reset(p)

(***************************************************************************)
(* Direct calls of the store, as the tests of fileHandler.js make them.    *)
(***************************************************************************)
W1 == [id |-> JNum(1), name |-> JStr(<<"A">>), department |-> JStr(<<"D">>),
       basicSalary |-> JNum(5)]
W2 == [id |-> JNum(2), name |-> JStr(<<"B">>), department |-> JStr(<<"E">>),
       basicSalary |-> JNum(7), profileImage |-> JStr(<<"p">>),
       gender |-> JStr(<<"F">>), startDate |-> JStr(<<"1", " ", "Feb", " ", "9">>),
       notes |-> JStr(<<"n">>)]
\* not well formed: a salary that is not a number, a property set to undefined
W3 == [id |-> JNum(3), name |-> JStr(<<"C">>), department |-> JStr(<<"D">>),
       basicSalary |-> JNaN, notes |-> JUndefined]

StoreRecords == {W1, W2, W3}

RECURSIVE SeqsUpTo(_, _)
SeqsUpTo(S, n) ==
    IF n = 0 THEN {<<>>}
    ELSE LET shorter == SeqsUpTo(S, n - 1)
         IN  shorter \cup {Append(x, e) : x \in {y \in shorter : Len(y) = n - 1}, e \in S}

\* the collections of at most MaxLen records, no record twice
StoreCollections ==
    {x \in SeqsUpTo(StoreRecords, MaxLen) :
        \A i, j \in 1..Len(x) : i # j => x[i] # x[j]}

\* no file, an empty file, text that is not JSON, JSON that is not an array,
\* and a collection
StoreFiles ==
    {NoFile, FileOf(<<>>), FileOf(<<Tok("bad")>>), FileOf(<<Tok("null")>>),
     FileOf(<<Tok("num")>>), FileOf(<<Tok("str")>>), FileOf(<<ObjTok(W1)>>),
     FileOf(Stringify(<<W2, W1>>))}

\* await writeEmployees(x)
ApiWrite(p) ==
    /\ Free(p)
    /\ req' = [req EXCEPT ![p] = [route |-> "writeEmployees"]]
    /\ CallWrite(p, input.x)
    /\ pc' = [pc EXCEPT ![p] = "opening"]
    /\ resp' = [resp EXCEPT ![p] = NoResp]
    /\ saw' = [saw EXCEPT ![p] = NoSaw]
    /\ UNCHANGED <<file, input, now, isAdmin, lastWrite>>

\* await readEmployees()
ApiRead(p) ==
    /\ Free(p)
    /\ AwaitRead(p, [route |-> "readEmployees"])
    /\ UNCHANGED <<file, input, now, isAdmin, lastWrite>>

Quiet ==
    /\ pc = [p \in Procs |-> "idle"]
    /\ req = [p \in Procs |-> NoReq]
    /\ arg = [p \in Procs |-> <<>>]
    /\ buf = [p \in Procs |-> <<>>]
    /\ off = [p \in Procs |-> 0]
    /\ resp = [p \in Procs |-> NoResp]
    /\ before = [p \in Procs |-> NoFile]
    /\ overlap = [p \in Procs |-> FALSE]
    /\ saw = [p \in Procs |-> NoSaw]
    /\ lastWrite = NoWrite

StartClock == 3

StoreInit ==
    /\ file \in StoreFiles
    /\ \E x \in StoreCollections : input = [x |-> x, body |-> NoBody, file |-> "none"]
    /\ now = StartClock
    /\ isAdmin = FALSE
    /\ Quiet

StoreNext ==
    \E p \in Procs :
        \/ ApiWrite(p)
        \/ ApiRead(p)
        \/ ReadFile(p)
        \/ WriteOpen(p)
        \/ WriteChunk(p)
        \/ WriteClose(p)
        \/ WriteFail(p)

StoreSpec == StoreInit /\ [][StoreNext]_vars


(***************************************************************************)
(* server.js: the routes.  A request is a call of the run; its handler     *)
(* runs to its first await in one step.                                    *)
(***************************************************************************)
\* a form with surrounding white space and every optional field, and a form
\* that validateEmployeeInput rejects
FullBody ==
    [name |-> JStr(<<" ", "B", " ">>), department |-> JStr(<<"E", " ">>),
     basicSalary |-> JStr(<<"7">>), gender |-> JStr(<<"F">>),
     day |-> JStr(<<"1">>), month |-> JStr(<<"2">>), year |-> JStr(<<"9">>),
     notes |-> JStr(<<" ", "n">>)]
BlankBody ==
    [name |-> JStr(<<" ">>), department |-> JStr(<<"E">>), basicSalary |-> JStr(<<"0">>)]

Bodies == {FullBody, BlankBody}

\* Math.floor(Math.random() * 70) + 1, as text
RandomAvatars == {"1", "70"}

DigitText == <<"1", "2", "3", "4", "5", "6", "7", "8", "9">>

\* req.params.id: the id of a stored record, the id a create of this run
\* may have generated, and text that is no number
IdParams == {<<DigitText[1]>>, <<DigitText[StartClock]>>, <<"x">>}

\* the right credentials, a wrong password and a wrong user name
Credentials ==
    {[username |-> ADMIN_USERNAME, password |-> ADMIN_PASSWORD],
     [username |-> ADMIN_USERNAME, password |-> <<"x">>],
     [username |-> <<"x">>, password |-> ADMIN_PASSWORD]}

\* (variant) username === ADMIN_USERNAME || password === ADMIN_PASSWORD
AuthenticatesEither(body) ==
    body.username = ADMIN_USERNAME \/ body.password = ADMIN_PASSWORD

\* username === ADMIN_USERNAME && password === ADMIN_PASSWORD
Authenticates(body) ==
    body.username = ADMIN_USERNAME /\ body.password = ADMIN_PASSWORD

\* POST /login
Login ==
    /\ \E body \in Credentials :
          isAdmin' = IF Authenticates(body) THEN TRUE ELSE isAdmin
    /\ UNCHANGED <<file, pc, req, arg, buf, off, resp, input, now,
                   before, overlap, saw, lastWrite>>

\* GET /logout: req.session.destroy
Logout ==
    /\ isAdmin' = FALSE
    /\ UNCHANGED <<file, pc, req, arg, buf, off, resp, input, now,
                   before, overlap, saw, lastWrite>>

\* POST /add: requireAuth, validation, the new object, then the read.  The
\* clock is read once, by generateEmployeeId; since it was last read it has
\* stood still or moved on
PostAdd(p) ==
    /\ Free(p)
    /\ \E random \in RandomAvatars, t \in now..MaxClock :
          LET rq == [route |-> "POST /add", body |-> input.body, file |-> input.file]
              validation == Validation(rq.body)
          IN  /\ IF ~requireAuth THEN Answer(p, rq, Redirect("/login"))
                 ELSE IF rq.file = "refused" THEN Answer(p, rq, ServerError)
                 ELSE IF validation.threw THEN Answer(p, rq, Caught(rq))
                 ELSE IF ~validation.valid
                 THEN Answer(p, rq, RenderForm("add", validation.errors, Submitted(rq)))
                 ELSE AwaitRead(p, rq @@ [newEmployee |-> NewEmployee(rq, random, t)])
              /\ now' = IF /\ requireAuth /\ rq.file # "refused"
                           /\ ~validation.threw /\ validation.valid
                        THEN t ELSE now
    /\ UNCHANGED <<file, input, isAdmin, lastWrite>>

\* (variant) POST /edit/:id without the check of validation.valid
PostEditUnchecked(p) ==
    /\ Free(p)
    /\ \E id \in IdParams :
          LET rq == [route |-> "POST /edit/:id", body |-> input.body, id |-> JStr(id)]
          IN  IF ~requireAuth THEN Answer(p, rq, Redirect("/login"))
              ELSE AwaitRead(p, rq)
    /\ UNCHANGED <<file, input, now, isAdmin, lastWrite>>

\* POST /edit/:id: requireAuth, validation, then the read
PostEdit(p) ==
    /\ Free(p)
    /\ \E id \in IdParams :
          LET rq == [route |-> "POST /edit/:id", body |-> input.body, id |-> JStr(id)]
              validation == Validation(rq.body)
          IN  IF ~requireAuth THEN Answer(p, rq, Redirect("/login"))
              ELSE IF validation.threw THEN Answer(p, rq, Caught(rq))
              ELSE IF ~validation.valid
              THEN Answer(p, rq, RenderForm("edit", validation.errors, Submitted(rq)))
              ELSE AwaitRead(p, rq)
    /\ UNCHANGED <<file, input, now, isAdmin, lastWrite>>

\* POST /delete/:id: requireAuth, then the read
PostDelete(p) ==
    /\ Free(p)
    /\ \E id \in IdParams :
          LET rq == [route |-> "POST /delete/:id", id |-> JStr(id)]
          IN  IF ~requireAuth THEN Answer(p, rq, Redirect("/login"))
              ELSE AwaitRead(p, rq)
    /\ UNCHANGED <<file, input, now, isAdmin, lastWrite>>

\* GET /: no requireAuth; the read, then the dashboard
GetIndex(p) ==
    /\ Free(p)
    /\ AwaitRead(p, [route |-> "GET /", isAdmin |-> isAdmin])
    /\ UNCHANGED <<file, input, now, isAdmin, lastWrite>>

\* employees.json when the server starts: absent, not JSON, or a collection
\* with pairwise distinct ids generated before StartClock
ServerFiles == {NoFile, FileOf(<<Tok("bad")>>), FileOf(Stringify(<<W1, W2>>))}

Init ==
    /\ file \in ServerFiles
    /\ \E body \in Bodies : input = [x |-> <<>>, body |-> body, file |-> "none"]
    /\ now = StartClock
    /\ isAdmin = FALSE
    /\ Quiet

Next ==
    \/ Login
    \/ Logout
    \/ \E p \in Procs :
          \/ PostAdd(p)
          \/ PostEdit(p)
          \/ PostDelete(p)
          \/ GetIndex(p)
          \/ ReadFile(p)
          \/ WriteOpen(p)
          \/ WriteChunk(p)
          \/ WriteClose(p)
          \/ WriteFail(p)

Spec == Init /\ [][Next]_vars

(***************************************************************************)
(* One request at a time, on more stores and more forms.                   *)
(***************************************************************************)
\* a form whose salary text parseFloat reads as Infinity
InfinityBody ==
    [name |-> JStr(<<"A">>), department |-> JStr(<<"D">>),
     basicSalary |-> JStr(InfinityText)]

RequestBodies == Bodies \cup {InfinityBody}

\* the store two POST /add of FullBody leave when both read the clock at
\* StartClock
TwinStore ==
    LET rq == [route |-> "POST /add", body |-> FullBody, file |-> "none"]
    IN  <<NewEmployee(rq, "1", StartClock), NewEmployee(rq, "70", StartClock)>>

RequestFiles == ServerFiles \cup {FileOf(Stringify(TwinStore))}

RequestInit ==
    /\ file \in RequestFiles
    /\ \E body \in RequestBodies : input = [x |-> <<>>, body |-> body, file |-> "none"]
    /\ now = StartClock
    /\ isAdmin = FALSE
    /\ Quiet

RequestNext ==
    \/ Login
    \/ Logout
    \/ PostAdd(1)
    \/ PostEdit(1)
    \/ PostDelete(1)
    \/ GetIndex(1)
    \/ ReadFile(1)
    \/ WriteOpen(1)
    \/ WriteChunk(1)
    \/ WriteClose(1)
    \/ WriteFail(1)

RequestSpec == RequestInit /\ [][RequestNext]_vars

(***************************************************************************)
(* One request at a time on a store that fails, as the error handling      *)
(* tests of the routes make it fail: FileHandler.readEmployees is a mock    *)
(* that rejects, the write fails, or the file holds JSON that is no array. *)
(***************************************************************************)
\* readEmployees.mockRejectedValue(new Error('File read error'))
ReadRejects(p) ==
    /\ pc[p] = "reading"
    /\ LET next == AfterRead(req[p], Rejected("File read error"))
       IN  /\ pc' = [pc EXCEPT ![p] = next.pc]
           /\ resp' = [resp EXCEPT ![p] = next.resp]
           /\ saw' = [saw EXCEPT ![p] = [error |-> "mock", data |-> <<>>,
                                          last |-> lastWrite, torn |-> FALSE]]
    /\ UNCHANGED <<file, req, arg, buf, off, input, now, isAdmin,
                   before, overlap, lastWrite>>

FaultFiles == RequestFiles \cup {FileOf(<<Tok("null")>>)}

FaultInit ==
    /\ file \in FaultFiles
    /\ \E body \in RequestBodies : input = [x |-> <<>>, body |-> body, file |-> "none"]
    /\ now = StartClock
    /\ isAdmin = FALSE
    /\ Quiet

FaultNext ==
    \/ RequestNext
    \/ ReadRejects(1)

FaultSpec == FaultInit /\ [][FaultNext]_vars

(***************************************************************************)
(* Every route of the site, each request with its response, on a session   *)
(* that is or is not admin when the run starts.                            *)
(***************************************************************************)
\* POST /login, with its response
PostLogin(p) ==
    /\ Free(p)
    /\ \E body \in Credentials :
          /\ Answer(p, [route |-> "POST /login", body |-> body],
                    IF Authenticates(body) THEN Redirect("/") ELSE RenderLogin(InvalidLogin))
          /\ isAdmin' = IF Authenticates(body) THEN TRUE ELSE isAdmin
    /\ UNCHANGED <<file, input, now, lastWrite>>

\* GET /logout: req.session.destroy, then the redirect
GetLogout(p) ==
    /\ Free(p)
    /\ Answer(p, [route |-> "GET /logout"], Redirect("/"))
    /\ isAdmin' = FALSE
    /\ UNCHANGED <<file, input, now, lastWrite>>

\* GET /login: the login page, or the dashboard for an admin
GetLogin(p) ==
    /\ Free(p)
    /\ Answer(p, [route |-> "GET /login"],
              IF isAdmin THEN Redirect("/") ELSE RenderLogin(JNull))
    /\ UNCHANGED <<file, input, now, isAdmin, lastWrite>>

\* GET /add: requireAuth, then the empty form
GetAdd(p) ==
    /\ Free(p)
    /\ Answer(p, [route |-> "GET /add"],
              IF ~requireAuth THEN Redirect("/login")
              ELSE RenderForm("add", <<>>, [none |-> JUndefined]))
    /\ UNCHANGED <<file, input, now, isAdmin, lastWrite>>

\* GET /edit/:id: requireAuth, then the read
GetEdit(p) ==
    /\ Free(p)
    /\ \E id \in IdParams :
          LET rq == [route |-> "GET /edit/:id", id |-> JStr(id)]
          IN  IF ~requireAuth THEN Answer(p, rq, Redirect("/login"))
              ELSE AwaitRead(p, rq)
    /\ UNCHANGED <<file, input, now, isAdmin, lastWrite>>

\* employees.json: a collection, or JSON that is no array
SiteFiles == {FileOf(Stringify(<<W1, W2>>)), FileOf(<<Tok("null")>>)}

\* upload.single('profileImage'): no file sent, or a file that the
\* fileFilter or the size limit refuses
Uploads == {"none", "refused"}

SiteInit ==
    /\ file \in SiteFiles
    /\ \E body \in Bodies, upload \in Uploads :
          input = [x |-> <<>>, body |-> body, file |-> upload]
    /\ now = StartClock
    /\ isAdmin \in BOOLEAN
    /\ Quiet

SiteNext ==
    \E p \in Procs :
        \/ PostLogin(p)
        \/ GetLogout(p)
        \/ GetLogin(p)
        \/ GetAdd(p)
        \/ GetEdit(p)
        \/ GetIndex(p)
        \/ PostAdd(p)
        \/ PostEdit(p)
        \/ PostDelete(p)
        \/ ReadFile(p)
        \/ WriteOpen(p)
        \/ WriteChunk(p)
        \/ WriteClose(p)
        \/ WriteFail(p)

SiteSpec == SiteInit /\ [][SiteNext]_vars

\* every call of the file system that was issued settles: the read returns,
\* the open and each write(fd, ...) complete unless the write has failed
IOSettles ==
    \A p \in Procs :
        /\ WF_vars(ReadFile(p))
        /\ WF_vars(WriteOpen(p))
        /\ WF_vars(WriteChunk(p))
        /\ WF_vars(WriteClose(p))

FairSiteSpec == SiteSpec /\ IOSettles

(***************************************************************************)
(* Direct calls of validateEmployeeInput, as its tests make them, with the *)
(* values a form parsed with extended: true can hold as well.              *)
(***************************************************************************)
NameValues ==
    {JUndefined, JNull, JStr(<<>>), JStr(<<" ">>), JStr(<<"A">>), JStr(<<" ", "A", " ">>),
     JList(<<"A">>)}

SalaryValues ==
    {JUndefined, JNull, JStr(<<>>), JStr(<<"a", "b", "c">>), JStr(<<"0">>),
     JStr(<<"-", "5">>), JStr(<<"7">>), JStr(<<" ", "7", "x">>), JStr(InfinityText),
     JNum(0), JNum(0 - 5), JNum(5), JList(<<"7">>)}

\* what a call gives its caller: the result, or the exception
ValidateOutcome(body) ==
    LET v == Validation(body)
    IN  IF v.threw THEN [kind |-> "threw", error |-> "TypeError"]
        ELSE [kind |-> "returned", valid |-> v.valid, errors |-> v.errors]

\* validateEmployeeInput(name, department, basicSalary)
CallValidate(p) ==
    /\ Free(p)
    /\ Answer(p, [route |-> "validateEmployeeInput", body |-> input.body],
              ValidateOutcome(input.body))
    /\ UNCHANGED <<file, input, now, isAdmin, lastWrite>>

ValidateInit ==
    /\ file = NoFile
    /\ \E name \in NameValues, department \in NameValues, basicSalary \in SalaryValues :
          input = [x |-> <<>>, file |-> "none",
                   body |-> [name |-> name, department |-> department,
                             basicSalary |-> basicSalary]]
    /\ now = StartClock
    /\ isAdmin = FALSE
    /\ Quiet

ValidateNext == \E p \in Procs : CallValidate(p)

ValidateSpec == ValidateInit /\ [][ValidateNext]_vars

(***************************************************************************)
(* Direct calls of generateEmployeeId, calculateTax, calculateNetSalary    *)
(* and enrichEmployeeWithPayroll, as tests/unit/calculations.test.js makes *)
(* them.                                                                   *)
(***************************************************************************)
\* the salaries of the tests (5000.50 among them), small whole salaries,
\* salaries with cents, and 0
Salaries ==
    {JNum(5000), JNum(4500), JNum(3000), JNum(7500), JNum(10000), Cents(500050),
     JNum(1), JNum(7), JNum(11), Cents(23), Cents(100007), JNum(0)}

Returned(v) == [kind |-> "returned", value |-> v]

\* generateEmployeeId(): the clock is read; it has stood still or moved on
\* since it was last read
CallGenerateId(p) ==
    /\ Free(p)
    /\ \E t \in now..MaxClock :
          /\ Answer(p, [route |-> "generateEmployeeId", clock |-> t],
                    Returned(generateEmployeeId(t)))
          /\ now' = t
    /\ UNCHANGED <<file, input, isAdmin, lastWrite>>

\* calculateTax(basicSalary)
CallTax(p) ==
    /\ Free(p)
    /\ Answer(p, [route |-> "calculateTax", basicSalary |-> input.body.basicSalary],
              Returned(calculateTax(input.body.basicSalary)))
    /\ UNCHANGED <<file, input, now, isAdmin, lastWrite>>

\* calculateNetSalary(basicSalary, calculateTax(basicSalary))
CallNetSalary(p) ==
    /\ Free(p)
    /\ LET tax == calculateTax(input.body.basicSalary)
       IN  Answer(p, [route |-> "calculateNetSalary",
                      basicSalary |-> input.body.basicSalary, tax |-> tax],
                  Returned(calculateNetSalary(input.body.basicSalary, tax)))
    /\ UNCHANGED <<file, input, now, isAdmin, lastWrite>>

\* enrichEmployeeWithPayroll(employee)
CallEnrich(p) ==
    /\ Free(p)
    /\ LET employee == [W1 EXCEPT !.basicSalary = input.body.basicSalary]
       IN  Answer(p, [route |-> "enrichEmployeeWithPayroll", employee |-> employee],
                  Returned(enrichEmployeeWithPayroll(employee)))
    /\ UNCHANGED <<file, input, now, isAdmin, lastWrite>>

CalcInit ==
    /\ file = NoFile
    /\ \E basicSalary \in Salaries :
          input = [x |-> <<>>, file |-> "none", body |-> [basicSalary |-> basicSalary]]
    /\ now = StartClock
    /\ isAdmin = FALSE
    /\ Quiet

CalcNext ==
    \E p \in Procs :
        \/ CallGenerateId(p)
        \/ CallTax(p)
        \/ CallNetSalary(p)
        \/ CallEnrich(p)

CalcSpec == CalcInit /\ [][CalcNext]_vars

(***************************************************************************)
(* Properties of the store.                                                *)
(***************************************************************************)
IsRead(p) == req[p].route = "readEmployees" /\ pc[p] = "done"
IsWrite(p) == req[p].route = "writeEmployees"

\* every property of every record is a string or a finite number
WellFormed(x) ==
    \A i \in 1..Len(x) : \A f \in DOMAIN x[i] : x[i][f].t \in {"string", "number"}

\* the read was served by the file system after a completed write of x that
\* no other write overlapped or followed
ReadAfterWrite(p) == IsRead(p) /\ saw[p].error = "none" /\ saw[p].last.ok

\* C3: a readEmployees() concurrent with one writeEmployees(records) meets
\* either the complete previous content or the complete new content of the
\* file, never an empty, truncated or partially written one.
C3_ReadNeverTorn == \A p \in Procs : ~saw[p].torn

\* C4: writeEmployees(x) followed by readEmployees() with no intervening
\* write returns, for well-formed x, a collection deep-equal to x: same
\* length, same order, every property of every record unchanged.
C4_RoundTrip ==
    \A p \in Procs :
        (ReadAfterWrite(p) /\ WellFormed(saw[p].last.x)) =>
            /\ resp[p].kind = "resolved"
            /\ resp[p].value.kind = "array"
            /\ Len(resp[p].value.items) = Len(saw[p].last.x)
            /\ \A i \in 1..Len(saw[p].last.x) :
                  /\ DOMAIN resp[p].value.items[i] = DOMAIN saw[p].last.x[i]
                  /\ resp[p].value.items[i] = saw[p].last.x[i]

\* C4 witness: a two-record collection, one record with the pass-through
\* properties and one without, was written and read back
C4_Witness ==
    \E p \in Procs : /\ ReadAfterWrite(p)
                     /\ saw[p].last.x = <<W2, W1>>
                     /\ resp[p] = Resolved(JArray(<<W2, W1>>))

\* C5: after completed writes the file holds exactly the text of the most
\* recently completed one (nothing of an earlier, longer content survives),
\* and a read is served from the file as it is then and returns that
\* collection.
C5_LastWriteWins ==
    /\ lastWrite.ok => file = FileOf(Stringify(lastWrite.x))
    /\ \A p \in Procs :
          ReadAfterWrite(p) =>
            /\ saw[p].data = Stringify(saw[p].last.x)
            /\ WellFormed(saw[p].last.x) => resp[p] = Resolved(JArray(saw[p].last.x))

\* C5 witness: the file held two records, a write of one record completed,
\* and the read after it returned that one record
C5_Witness ==
    \E w, r \in Procs :
        /\ IsWrite(w) /\ pc[w] = "done" /\ resp[w].kind = "resolved"
        /\ before[w] = FileOf(Stringify(<<W2, W1>>))
        /\ arg[w] = <<W1>>
        /\ ReadAfterWrite(r)
        /\ saw[r].last = [ok |-> TRUE, x |-> <<W1>>]
        /\ resp[r] = Resolved(JArray(<<W1>>))

\* C7: when the file write fails, writeEmployees rejects and the file reads
\* as it did when writeEmployees was called (no other write being in
\* progress): the write is not partially applied.
C7_FailedWriteLeavesFile ==
    [][\A p \in Procs :
          (IsWrite(p) /\ InWrite(p) /\ pc'[p] = "done" /\ resp'[p].kind # "resolved"
           /\ ~overlap[p])
          => /\ resp'[p].kind = "rejected"
             /\ readEmployees(OutcomeOf(file')) = readEmployees(OutcomeOf(before[p]))]_vars

\* C8: readEmployees() returns an empty array, and does not reject, when
\* the file does not exist.
C8_MissingFileIsEmpty ==
    \A p \in Procs :
        (IsRead(p) /\ saw[p].error = "ENOENT") => resp[p] = Resolved(JArray(<<>>))

C8_Witness ==
    \E p \in Procs : /\ IsRead(p) /\ saw[p].error = "ENOENT"
                     /\ resp[p] = Resolved(JArray(<<>>))

\* C9: readEmployees() never rejects; when the file holds text that is not
\* JSON (an empty file included) or the read fails for any other reason, it
\* returns an empty array.
C9_ReadNeverRejects ==
    \A p \in Procs :
        IsRead(p) =>
            /\ resp[p].kind = "resolved"
            /\ (saw[p].error # "none" \/ ~CanParse(saw[p].data))
                 => resp[p].value = JArray(<<>>)

\* C9 witness: reads of an empty file, of text that is not JSON, and a read
\* that failed, each answered with the empty array
C9_Witness ==
    \E p \in Procs : /\ IsRead(p)
                     /\ saw[p].error = "none"
                     /\ saw[p].data \in {<<>>, <<Tok("bad")>>}
                     /\ resp[p] = Resolved(JArray(<<>>))

\* C10: every value readEmployees() returns is a sequence of records: JSON
\* that is not an array is answered with an empty sequence.
C10_ReadReturnsArray ==
    \A p \in Procs :
        IsRead(p) => (resp[p].kind = "resolved" /\ resp[p].value.kind = "array")

(***************************************************************************)
(* Properties of the routes.                                               *)
(***************************************************************************)
IsHandler(p) == req[p].route \in {"POST /add", "POST /edit/:id", "POST /delete/:id"}

\* the handler's write resolved and it answered res.redirect('/')
Succeeded(p) == IsHandler(p) /\ pc[p] = "done" /\ resp[p] = Redirect("/")

\* what readEmployees gave the handler
Snapshot(p) == readEmployees([error |-> saw[p].error, data |-> saw[p].data]).value.items

\* the ids of a collection are pairwise distinct
DistinctIds(x) ==
    \A i, j \in 1..Len(x) : i # j => Get(x[i], "id") # Get(x[j], "id")

OptionalFields == {"profileImage", "gender", "startDate", "notes"}

\* C1: after any sequence of create, update and delete requests from a store
\* with pairwise distinct ids, the ids of the persisted collection are
\* pairwise distinct, two creates in one Date.now() millisecond included.
C1_IdsPairwiseDistinct ==
    (lastWrite.ok /\ file = FileOf(Stringify(lastWrite.x))) => DistinctIds(lastWrite.x)

\* C2: nothing prevents or detects a lost update: a handler's write can be
\* opened whatever has become of the file since the handler read it, and a
\* write that completes is answered with the redirect to "/" whether or not
\* the file was still what the handler had read.
C2_NothingPreventsOrDetects ==
    /\ [](\A p \in Procs : (IsHandler(p) /\ pc[p] = "opening") => ENABLED WriteOpen(p))
    /\ [][\A p \in Procs :
             (IsHandler(p) /\ pc[p] = "writing" /\ pc'[p] = "done" /\ file' # file)
             => resp'[p] = Redirect("/")]_vars

\* C2 witness, a lost update: a create and a delete read the same two
\* records; the create wrote all of its three records, then the delete
\* wrote; both were answered with the redirect to "/", and the persisted
\* collection lacks the created record
C2_Witness ==
    \E a, b \in Procs :
        /\ req[a].route = "POST /add" /\ Succeeded(a)
        /\ req[b].route = "POST /delete/:id" /\ Succeeded(b)
        /\ Snapshot(a) = <<W1, W2>> /\ Snapshot(b) = <<W1, W2>>
        /\ arg[a] = <<W1, W2, req[a].newEmployee>>
        /\ arg[b] = <<W2>>
        /\ lastWrite.x = arg[b]
        /\ file = FileOf(Stringify(<<W2>>))

\* C6: a valid update of an existing record leaves the record's optional
\* fields as they were: present ones keep their values, absent ones stay
\* absent.
C6_UpdateKeepsOptionalFields ==
    \A p \in Procs :
        (req[p].route = "POST /edit/:id" /\ pc[p] \in {"opening", "writing", "done"}
         /\ arg[p] # <<>>)
        => LET i == FindIndex(Snapshot(p), parseInt(req[p].id))
           IN  \A f \in OptionalFields :
                  /\ f \in DOMAIN arg[p][i] <=> f \in DOMAIN Snapshot(p)[i]
                  /\ f \in DOMAIN arg[p][i] => arg[p][i][f] = Snapshot(p)[i][f]

\* the records a read of the file returns now
Persisted ==
    LET v == readEmployees(OutcomeOf(file)).value
    IN  IF v.kind = "array" THEN v.items ELSE <<>>

\* no write is under way
Settled == \A p \in Procs : ~InWrite(p)

PositiveNumber(v) == v.t = "number" /\ v.n > 0

\* C11: after create, update and delete requests on a store whose records
\* all have basicSalary > 0, every persisted record has a numeric
\* basicSalary greater than zero, whatever salary text was submitted.
C11_SalariesPositive ==
    Settled => \A i \in 1..Len(Persisted) : PositiveNumber(Get(Persisted[i], "basicSalary"))

\* text that is not empty and neither starts nor ends with white space
Trimmed(v) ==
    /\ v.t = "string"
    /\ v.s # <<>>
    /\ v.s[1] \notin WhiteSpace
    /\ v.s[Len(v.s)] \notin WhiteSpace

\* v is the submitted text without the white space around it
TrimmedFrom(v, submitted) ==
    /\ Trimmed(v)
    /\ submitted.t = "string"
    /\ \E a \in 0..Len(submitted.s) :
          /\ a + Len(v.s) <= Len(submitted.s)
          /\ SubSeq(submitted.s, a + 1, a + Len(v.s)) = v.s
          /\ \A k \in 1..Len(submitted.s) :
                (k <= a \/ k > a + Len(v.s)) => submitted.s[k] \in WhiteSpace

\* the record a create appended or an update put in place, in the
\* collection handed to writeEmployees
Target(p) ==
    IF req[p].route = "POST /add" THEN arg[p][Len(arg[p])]
    ELSE arg[p][FindIndex(Snapshot(p), parseInt(req[p].id))]

\* C12: every persisted record has a name and a department that are not
\* empty and not white space only, and create and update store the submitted
\* name and department without the white space around them.
C12_NamesTrimmed ==
    /\ \A i \in 1..Len(Persisted) :
          Trimmed(Get(Persisted[i], "name")) /\ Trimmed(Get(Persisted[i], "department"))
    /\ \A p \in Procs :
          (req[p].route \in {"POST /add", "POST /edit/:id"} /\ (InWrite(p) \/ Succeeded(p)))
          => /\ TrimmedFrom(Target(p).name, Get(req[p].body, "name"))
             /\ TrimmedFrom(Target(p).department, Get(req[p].body, "department"))

\* C12 witness: a create and an update of " B " / "E " were both written,
\* with name "B" and department "E", and the file holds such a record
C12_Witness ==
    /\ \E p, q \in Procs :
          /\ req[p].route = "POST /add" /\ Succeeded(p)
          /\ req[q].route = "POST /edit/:id" /\ Succeeded(q)
          /\ Get(req[p].body, "name") = JStr(<<" ", "B", " ">>)
          /\ Target(p).name = JStr(<<"B">>) /\ Target(p).department = JStr(<<"E">>)
          /\ Target(q).name = JStr(<<"B">>) /\ Target(q).department = JStr(<<"E">>)
    /\ \E i \in 1..Len(Persisted) : Persisted[i].name = JStr(<<"B">>)

\* a create or update request whose input validateEmployeeInput rejects
Rejects(rq) ==
    /\ rq.route \in {"POST /add", "POST /edit/:id"}
    /\ ~Validation(rq.body).threw
    /\ ~Validation(rq.body).valid

\* the view a handler renders its form with
FormOf(route) == IF route = "POST /add" THEN "add" ELSE "edit"

\* C13: a create or update request whose input fails validateEmployeeInput
\* is answered in the step it arrives in, without a call of readEmployees or
\* writeEmployees and with the file left as it is, whether or not the id of
\* an update exists.
C13_InvalidInputWritesNothing ==
    /\ [](\A p \in Procs :
            Rejects(req[p]) =>
                /\ pc[p] = "done"
                /\ saw[p] = NoSaw
                /\ arg[p] = <<>> /\ buf[p] = <<>>
                /\ resp[p] \in {Redirect("/login"),
                                RenderForm(FormOf(req[p].route),
                                           Validation(req[p].body).errors,
                                           Submitted(req[p]))})
    /\ [][\A p \in Procs :
             (pc[p] = "idle" /\ pc'[p] # "idle" /\ Rejects(req'[p]))
             => (file' = file /\ pc'[p] = "done")]_vars

\* C13 witness: a create and an update of an existing id, both with a blank
\* name and salary 0, were answered with their forms and the two errors, and
\* the file holds what it held
C13_Witness ==
    \E p, q \in Procs :
        /\ req[p].route = "POST /add" /\ req[q].route = "POST /edit/:id"
        /\ req[q].id = JStr(<<"1">>)
        /\ resp[p] = RenderForm("add", <<NameRequired, SalaryPositive>>, Submitted(req[p]))
        /\ resp[q] = RenderForm("edit", <<NameRequired, SalaryPositive>>, Submitted(req[q]))
        /\ Persisted = <<W1, W2>>

\* the handler's read has returned
HasRead(p) == saw[p].error # "unread"

\* an update or delete whose read returned a collection without its id
Misses(p) ==
    /\ req[p].route \in {"POST /edit/:id", "POST /delete/:id"}
    /\ HasRead(p)
    /\ FindIndex(Snapshot(p), parseInt(req[p].id)) = 0

\* C14: an update or delete whose id matches no record of the collection
\* just read never calls writeEmployees and is answered with the redirect to
\* '/?error=Employee not found'.
C14_NotFoundWritesNothing ==
    \A p \in Procs :
        Misses(p) => /\ pc[p] = "done"
                     /\ resp[p] = Redirect(NotFound)
                     /\ arg[p] = <<>> /\ buf[p] = <<>>

\* C14 witness: an update of id 3 and a delete of id 'x' on the store of W1
\* and W2 were answered with the redirect, and the store holds W1 and W2
C14_Witness ==
    \E p, q \in Procs :
        /\ req[p].route = "POST /edit/:id" /\ req[p].id = JStr(<<DigitText[StartClock]>>)
        /\ req[q].route = "POST /delete/:id" /\ req[q].id = JStr(<<"x">>)
        /\ Snapshot(p) = <<W1, W2>> /\ Snapshot(q) = <<W1, W2>>
        /\ resp[p] = Redirect(NotFound) /\ resp[q] = Redirect(NotFound)
        /\ Persisted = <<W1, W2>>

\* C15: after a successful delete request for the id of an existing record,
\* the collection written holds no record with that id.
C15_DeletedIdIsGone ==
    \A p \in Procs :
        (req[p].route = "POST /delete/:id" /\ Succeeded(p))
        => FindIndex(arg[p], parseInt(req[p].id)) = 0

\* the handler has handed a collection to writeEmployees
Wrote(p) == IsHandler(p) /\ (InWrite(p) \/ Succeeded(p))

\* the position in its snapshot of the record an update or delete targets
TargetIndex(p) == FindIndex(Snapshot(p), parseInt(req[p].id))

\* C16: an update or delete changes only the targeted record: every other
\* record of the collection it writes is the record it read, in the order
\* read.
C16_OthersUnchanged ==
    \A p \in Procs :
        /\ (req[p].route = "POST /edit/:id" /\ Wrote(p))
           => /\ Len(arg[p]) = Len(Snapshot(p))
              /\ \A j \in 1..Len(arg[p]) : j # TargetIndex(p) => arg[p][j] = Snapshot(p)[j]
        /\ (req[p].route = "POST /delete/:id" /\ Wrote(p))
           => /\ Len(arg[p]) = Len(Snapshot(p)) - 1
              /\ \A j \in 1..Len(arg[p]) :
                    arg[p][j] = Snapshot(p)[IF j < TargetIndex(p) THEN j ELSE j + 1]

\* C16 witness: an update of W1 wrote W2 unchanged behind it, and a delete
\* of the first of two records wrote the second alone
C16_Witness ==
    \E p, q \in Procs :
        /\ req[p].route = "POST /edit/:id" /\ Succeeded(p)
        /\ Snapshot(p) = <<W1, W2>> /\ TargetIndex(p) = 1
        /\ arg[p][1] # W1 /\ arg[p][2] = W2
        /\ req[q].route = "POST /delete/:id" /\ Succeeded(q)
        /\ Len(Snapshot(q)) = 2 /\ TargetIndex(q) = 1
        /\ arg[q] = <<Snapshot(q)[2]>>

\* C17: a successful create writes the collection it read followed by the
\* new record: the records read are persisted unchanged and in order, and
\* the length grows by one.
C17_CreateAppends ==
    \A p \in Procs :
        (req[p].route = "POST /add" /\ Wrote(p))
        => /\ arg[p] = Append(Snapshot(p), req[p].newEmployee)
           /\ Succeeded(p)
              => /\ Len(Persisted) = Len(Snapshot(p)) + 1
                 /\ \A j \in 1..Len(Snapshot(p)) : Persisted[j] = Snapshot(p)[j]
                 /\ Persisted[Len(Persisted)].id = req[p].newEmployee.id

\* C17 witness: a create on the store of W1 and W2 has left W1, W2 and the
\* new record in the file
C17_Witness ==
    \E p \in Procs :
        /\ req[p].route = "POST /add" /\ Succeeded(p)
        /\ Snapshot(p) = <<W1, W2>>
        /\ req[p].newEmployee.name = JStr(<<"B">>)
        /\ Persisted = <<W1, W2, req[p].newEmployee>>

\* the ids of a collection, in order
Ids(x) == [j \in 1..Len(x) |-> Get(x[j], "id")]

\* C18: an update preserves the id: the record written at the target
\* position has the id of the record read there, and the ids of the
\* collection are what they were.
C18_UpdateKeepsId ==
    \A p \in Procs :
        (req[p].route = "POST /edit/:id" /\ Wrote(p))
        => /\ Target(p).id = Snapshot(p)[TargetIndex(p)].id
           /\ Ids(arg[p]) = Ids(Snapshot(p))
           /\ Succeeded(p) => Ids(Persisted) = Ids(Snapshot(p))

\* C18 witness: an update of W1 has left a record with id 1 and the new
\* name first in the file, and W2 behind it
C18_Witness ==
    \E p \in Procs :
        /\ req[p].route = "POST /edit/:id" /\ Succeeded(p)
        /\ Snapshot(p) = <<W1, W2>> /\ TargetIndex(p) = 1
        /\ Persisted[1].id = JNum(1) /\ Persisted[1].name = JStr(<<"B">>)
        /\ Ids(Persisted) = <<JNum(1), JNum(2)>>

IsValidate(p) == req[p].route = "validateEmployeeInput" /\ pc[p] = "done"

\* the field is empty, absent or white space only
FieldFails(v) ==
    \/ v.t \in {"undefined", "null"}
    \/ v.t = "string" /\ \A k \in 1..Len(v.s) : v.s[k] \in WhiteSpace

\* the salary does not parse to a number, or to one that is not above zero
SalaryFails(v) == parseFloat(v).t \in {"NaN", "-Infinity"} \/ LeqZero(parseFloat(v))

\* one message for each field whose check fails, in the order of the checks
ExpectedErrors(body) ==
    (IF FieldFails(body.name) THEN <<NameRequired>> ELSE <<>>)
    \o (IF FieldFails(body.department) THEN <<DepartmentRequired>> ELSE <<>>)
    \o (IF SalaryFails(body.basicSalary) THEN <<SalaryPositive>> ELSE <<>>)

\* C20: every call of validateEmployeeInput runs all three checks: errors
\* holds one message for each field whose check fails, in the order name,
\* department, salary, and valid is true exactly when errors is empty.
C20_AllChecksRun ==
    \A p \in Procs :
        IsValidate(p) => /\ resp[p].kind = "returned"
                         /\ resp[p].errors = ExpectedErrors(req[p].body)
                         /\ Len(resp[p].errors) \in 0..3
                         /\ resp[p].valid <=> resp[p].errors = <<>>

\* the messages a call of validateEmployeeInput gave its caller
MessagesOf(p) ==
    IF resp[p].kind = "returned" THEN {resp[p].errors[k] : k \in 1..Len(resp[p].errors)}
    ELSE {}

\* the call returned { valid: true, errors: [] }
Accepted(p) == resp[p].kind = "returned" /\ resp[p].valid /\ resp[p].errors = <<>>

\* C21: validateEmployeeInput gives the name message exactly when the name
\* is empty, absent or white space only, the department message under the
\* same rule for the department, and the salary message exactly when the
\* salary does not parse to a number or parses to one that is not above
\* zero; a call with a name and a department that are not blank and a
\* positive salary is accepted.
C21_MessagesExactlyWhen ==
    \A p \in Procs :
        IsValidate(p) =>
            /\ NameRequired \in MessagesOf(p) <=> FieldFails(req[p].body.name)
            /\ DepartmentRequired \in MessagesOf(p) <=> FieldFails(req[p].body.department)
            /\ SalaryPositive \in MessagesOf(p) <=> SalaryFails(req[p].body.basicSalary)
            /\ (~FieldFails(req[p].body.name) /\ ~FieldFails(req[p].body.department)
                /\ ~SalaryFails(req[p].body.basicSalary)) => Accepted(p)


\* C22: validateEmployeeInput never throws: for every value of name,
\* department and basicSalary, absent values and the arrays of an extended
\* form included, the call returns a { valid, errors } result.
C22_NeverThrows ==
    \A p \in Procs :
        IsValidate(p) => /\ resp[p].kind = "returned"
                         /\ resp[p].valid \in BOOLEAN
                         /\ DOMAIN resp[p].errors = 1..Len(resp[p].errors)


\* a GET / request whose handler rendered the records it read
Listed(p) ==
    /\ req[p].route = "GET /"
    /\ pc[p] = "done"
    /\ resp[p].error = JNull

PayrollFields == {"tax", "netSalary"}

\* C23: enrichEmployeeWithPayroll returns an object with every field of the
\* record at the same value (the id in particular) plus tax and netSalary;
\* the dashboard applies it to every record read, in order, and the step
\* that does so leaves the persisted collection as it is.
C23_EnrichKeepsRecord ==
    /\ [](\A p \in Procs :
            Listed(p) =>
                /\ Len(resp[p].employees) = Len(Snapshot(p))
                /\ \A i \in 1..Len(Snapshot(p)) :
                      /\ DOMAIN resp[p].employees[i] = DOMAIN Snapshot(p)[i] \cup PayrollFields
                      /\ \A f \in DOMAIN Snapshot(p)[i] :
                            resp[p].employees[i][f] = Snapshot(p)[i][f]
                      /\ resp[p].employees[i].id = Snapshot(p)[i].id)
    /\ [][\A p \in Procs :
             (req[p].route = "GET /" /\ pc[p] = "reading" /\ pc'[p] # "reading")
             => /\ pc'[p] = "done"
                /\ file' = file
                /\ arg'[p] = <<>> /\ buf'[p] = <<>>]_vars

\* C23 witness: the dashboard listed W1 and W2, each with its own fields,
\* its tax and its net salary, and the store holds W1 and W2
C23_Witness ==
    \E p \in Procs :
        /\ Listed(p)
        /\ Snapshot(p) = <<W1, W2>>
        /\ resp[p].employees[2].id = JNum(2)
        /\ resp[p].employees[2].notes = W2.notes
        /\ resp[p].employees[2].tax = Cents(84)
        /\ resp[p].employees[2].netSalary = Cents(616)
        /\ DOMAIN resp[p].employees[1] = DOMAIN W1 \cup PayrollFields
        /\ Persisted = <<W1, W2>>


(***************************************************************************)
(* Properties of the calculations.                                         *)
(***************************************************************************)
Called(p, function) == req[p].route = function /\ pc[p] = "done"

\* a + b
Plus(a, b) == FromDouble(AddD(ToDouble(a), ToDouble(b)))

\* the double nearest to 12 / 100 of the number b
TwelvePercent(b) ==
    LET d == ToDouble(b)
        ratio == NearestRatio(d.neg, BigMulSmall(d.m, 12), 100)
    IN  FromDouble([ratio EXCEPT !.e = @ + d.e])

\* the next double above a positive double
NextUp(d) ==
    IF BitLen(BigAdd(d.m, <<1>>)) > Precision
    THEN [neg |-> d.neg, m |-> BigShr(BigAdd(d.m, <<1>>), 1), e |-> d.e + 1]
    ELSE [neg |-> d.neg, m |-> BigAdd(d.m, <<1>>), e |-> d.e]

\* a and b are the same double or neighbours
Adjacent(a, b) ==
    \/ a = b
    \/ ToDouble(a) = NextUp(ToDouble(b))
    \/ ToDouble(b) = NextUp(ToDouble(a))

\* C24 as stated: for every basicSalary > 0 calculateTax returns 12% of it,
\* calculateNetSalary returns basicSalary - tax, and for every enriched
\* record tax + netSalary equals basicSalary.
C24_TaxPlusNetIsSalary ==
    \A p \in Procs :
        /\ (Called(p, "calculateTax") /\ PositiveNumber(req[p].basicSalary))
           => resp[p].value = TwelvePercent(req[p].basicSalary)
        /\ (Called(p, "enrichEmployeeWithPayroll")
            /\ PositiveNumber(req[p].employee.basicSalary))
           => Plus(resp[p].value.tax, resp[p].value.netSalary) = resp[p].value.basicSalary

\* C24 as amended: calculateTax returns 12% of basicSalary rounded to a
\* double, the nearest one or a neighbour of it; calculateNetSalary returns
\* basicSalary - tax rounded to a double, so that for every enriched record
\* tax + netSalary is basicSalary or a double next to it; 5000 gives exactly
\* 600 and 4400.
C24_WithinOneUnit ==
    \A p \in Procs :
        /\ (Called(p, "calculateTax") /\ PositiveNumber(req[p].basicSalary))
           => /\ Adjacent(resp[p].value, TwelvePercent(req[p].basicSalary))
              /\ req[p].basicSalary = JNum(5000) => resp[p].value = JNum(600)
        /\ (Called(p, "calculateNetSalary") /\ PositiveNumber(req[p].basicSalary))
           => /\ Adjacent(Plus(resp[p].value, req[p].tax), req[p].basicSalary)
              /\ req[p].basicSalary = JNum(5000) => resp[p].value = JNum(4400)
        /\ (Called(p, "enrichEmployeeWithPayroll")
            /\ PositiveNumber(req[p].employee.basicSalary))
           => /\ resp[p].value.basicSalary = req[p].employee.basicSalary
              /\ Adjacent(resp[p].value.tax, TwelvePercent(resp[p].value.basicSalary))
              /\ Adjacent(Plus(resp[p].value.tax, resp[p].value.netSalary),
                          resp[p].value.basicSalary)

\* C24 witness: the record with salary 1000.07 was enriched; its tax is the
\* double before the one nearest to 120.0084, and its tax and net salary add
\* up to the double before 1000.07
C24_Witness ==
    \E p \in Procs :
        /\ Called(p, "enrichEmployeeWithPayroll")
        /\ resp[p].value.basicSalary = Cents(100007)
        /\ ToDouble(TwelvePercent(Cents(100007))) = NextUp(ToDouble(resp[p].value.tax))
        /\ ToDouble(Cents(100007))
             = NextUp(ToDouble(Plus(resp[p].value.tax, resp[p].value.netSalary)))

\* C25: generateEmployeeId returns a positive number, and of two calls that
\* read the clock at different milliseconds the later one returns the larger
\* value.
C25_IdsFollowTheClock ==
    /\ \A p \in Procs :
          Called(p, "generateEmployeeId") => PositiveNumber(resp[p].value)
    /\ \A p, q \in Procs :
          (Called(p, "generateEmployeeId") /\ Called(q, "generateEmployeeId")
           /\ p < q /\ req[p].clock # req[q].clock)
          => /\ resp[p].value # resp[q].value
             /\ resp[p].value.n < resp[q].value.n

\* C25 witness: a call at millisecond StartClock and a later call at the
\* next millisecond returned StartClock and StartClock + 1
C25_Witness ==
    \E p, q \in Procs :
        /\ Called(p, "generateEmployeeId") /\ Called(q, "generateEmployeeId")
        /\ p < q
        /\ req[p].clock = StartClock /\ req[q].clock = StartClock + 1
        /\ resp[p].value = JNum(StartClock) /\ resp[q].value = JNum(StartClock + 1)


\* the error response of each handler
FailureResponse(rq) ==
    CASE rq.route = "POST /add" ->
            [kind |-> "render", status |-> 200, target |-> "add",
             errors |-> <<"Failed to save employee data. Please try again.">>,
             employee |-> [name |-> rq.body.name, department |-> rq.body.department,
                           basicSalary |-> rq.body.basicSalary]]
      [] rq.route = "POST /edit/:id" ->
            [kind |-> "render", status |-> 200, target |-> "edit",
             errors |-> <<"Failed to update employee data. Please try again.">>,
             employee |-> [id |-> parseInt(rq.id), name |-> rq.body.name,
                           department |-> rq.body.department,
                           basicSalary |-> rq.body.basicSalary]]
      [] rq.route = "POST /delete/:id" ->
            [kind |-> "redirect", status |-> 302,
             target |-> "/?error=Failed to delete employee", errors |-> <<>>]
      [] rq.route = "GET /" ->
            [kind |-> "render", status |-> 200, target |-> "index", errors |-> <<>>,
             employees |-> <<>>, error |-> JStr(<<"Failed to load employee data">>),
             isAdmin |-> FALSE]

\* C26: when readEmployees or writeEmployees rejects inside a handler, the
\* handler ends with its error response and not with the redirect to '/':
\* POST /add and POST /edit/:id render their form with status 200, the
\* 'Failed to save / update' message and the submitted input, POST
\* /delete/:id redirects to '/?error=Failed to delete employee', and GET /
\* renders an empty list with 'Failed to load employee data'.
C26_RejectionsAreCaught ==
    [][\A p \in Procs :
          (ReadRejects(p) \/ WriteFail(p))
          => /\ pc'[p] = "done"
             /\ resp'[p] = FailureResponse(req[p])
             /\ resp'[p] # Redirect("/")
             /\ file' = file]_vars

\* C26 witness: a create of " B " whose write failed was answered with the
\* form, the message and " B "; the store holds what it held
C26_Witness ==
    /\ req[1].route = "POST /add" /\ pc[1] = "done"
    /\ saw[1].data = Stringify(<<W1, W2>>)
    /\ Len(arg[1]) = 3
    /\ resp[1].kind = "render" /\ resp[1].target = "add" /\ resp[1].status = 200
    /\ resp[1].errors = <<SaveFailed>>
    /\ resp[1].employee.name = JStr(<<" ", "B", " ">>)
    /\ Persisted = <<W1, W2>>


\* y is x with one record appended, with one record replaced, or with one
\* record removed
OneAppended(x, y) == Len(y) = Len(x) + 1 /\ SubSeq(y, 1, Len(x)) = x
OneReplaced(x, y) ==
    /\ Len(y) = Len(x)
    /\ \E i \in 1..Len(x) : \A j \in 1..Len(x) : j # i => y[j] = x[j]
OneRemoved(x, y) ==
    /\ Len(y) = Len(x) - 1
    /\ \E i \in 1..Len(x) :
          \A j \in 1..Len(y) : y[j] = x[IF j < i THEN j ELSE j + 1]

\* C27: a handler calls writeEmployees only in the step in which its own
\* readEmployees call of the same request returns, with the collection that
\* read returned changed by exactly one record (appended, replaced or
\* removed); the read is served from the file as it is at that moment, not
\* from an earlier request; a request succeeds only by completing that one
\* write, and a finished request does nothing more.
C27_ReadThenOneWrite ==
    /\ [](\A p \in Procs :
            Wrote(p) =>
                /\ HasRead(p)
                /\ req[p].route = "POST /add" => OneAppended(Snapshot(p), arg[p])
                /\ req[p].route = "POST /edit/:id" => OneReplaced(Snapshot(p), arg[p])
                /\ req[p].route = "POST /delete/:id" => OneRemoved(Snapshot(p), arg[p]))
    /\ [][\A p \in Procs :
             /\ (IsHandler(p)' /\ pc[p] # "opening" /\ pc'[p] = "opening")
                => /\ pc[p] = "reading"
                   /\ req'[p] = req[p]
                   /\ [error |-> saw'[p].error, data |-> saw'[p].data] \in ReadFileOutcomes
             /\ (IsHandler(p)' /\ pc[p] # "writing" /\ pc'[p] = "writing")
                => (pc[p] = "opening" /\ arg'[p] = arg[p])
             /\ (~Succeeded(p) /\ Succeeded(p)')
                => (pc[p] = "writing" /\ arg'[p] = arg[p] /\ req'[p] = req[p])
             /\ pc[p] = "done" => (pc'[p] = "done" /\ resp'[p] = resp[p])]_vars

\* C27 witness: after a first request had turned W1 and W2 into W2 alone, a
\* second request read W2 alone and wrote it with its own one change
C27_Witness ==
    \E p, q \in Procs :
        /\ p < q
        /\ req[p].route = "POST /delete/:id" /\ Succeeded(p)
        /\ Snapshot(p) = <<W1, W2>> /\ arg[p] = <<W2>>
        /\ req[q].route = "POST /add" /\ Succeeded(q)
        /\ Snapshot(q) = <<W2>>
        /\ arg[q] = <<W2, req[q].newEmployee>>
        /\ Persisted = arg[q]


\* the read of the handler met a file it could not read or could not parse
ReadFaulted(p) ==
    /\ HasRead(p)
    /\ saw[p].error # "none" \/ ~CanParse(saw[p].data)

Arrives(p) == req[p] = NoReq /\ req'[p] # NoReq

\* the request that arrives is a POST /login with both admin credentials
GoodLogin(p) ==
    /\ Arrives(p)
    /\ req'[p].route = "POST /login"
    /\ req'[p].body.username = ADMIN_USERNAME
    /\ req'[p].body.password = ADMIN_PASSWORD

StoreRoutes ==
    {"GET /", "POST /add", "GET /edit/:id", "POST /edit/:id", "POST /delete/:id"}

\* a request has its response exactly when its handler is through
Answered ==
    \A p \in Procs :
        req[p].route \in StoreRoutes => (resp[p] # NoResp <=> pc[p] = "done")

\* a response that was sent is not followed by another
NoSecondResponse ==
    \A p \in Procs : resp[p] # NoResp => resp'[p] = resp[p]

=============================================================================
